---- MODULE Spec2Model ----
(***************************************************************************)
(* Model of streamlit_app.py: the significant-candle and unbroken          *)
(* support/resistance detector.  One run of the script is one behaviour:   *)
(* the downloaded series is chosen in Init, and each numbered section of   *)
(* the script is one action.                                               *)
(*                                                                         *)
(* Prices are integers (price units are arbitrary).  A pandas float that   *)
(* may be NaN is modelled as a tuple: <<>> is NaN, <<v>> is the value v.   *)
(* The rolling mean is the exact fraction <<sum, window>>; 1.2 is 6/5, and *)
(* TR > 1.2 * ATR is decided by cross-multiplication, which agrees with    *)
(* the double arithmetic of the script on integer inputs of this size.     *)
(***************************************************************************)
EXTENDS Integers, Sequences, FiniteSets

VARIABLES
    series,               \* what yf.download returned (kept for reference)
    end_date,             \* selected_date
    data,                 \* the DataFrame `data`, a sequence of rows
    significant_candles,  \* the DataFrame `significant_candles`
    resistance_levels,    \* list of <<date, high>>
    support_levels,       \* list of <<date, low>>
    k,                    \* position of the level loop in significant_candles
    out,                  \* what the script has written to the page
    pc                    \* the section of the script that runs next

vars == <<series, end_date, data, significant_candles, resistance_levels,
          support_levels, k, out, pc>>

----------------------------------------------------------------------------
\* Program constants.

\* rolling(window=14)
W == 14

\* 1.2 == MNum / MDen
MNum == 6
MDen == 5

----------------------------------------------------------------------------
\* Bounds of the input space.

\* longest downloaded series
MaxLen == 16

\* at most this many bars of a series differ from the base bar
MaxOdd == 3

\* shortest non-empty series, and the first position whose bar may vary
MinLen == W - 2
FreeFrom == W - 3

----------------------------------------------------------------------------
\* Floats that may be NaN.

NaN == <<>>

Abs(x) == IF x < 0 THEN -x ELSE x

Max(S) == CHOOSE m \in S : \A x \in S : x <= m

\* the difference without .abs()
AbsDiffSigned(x, prev) == IF prev = NaN THEN NaN ELSE <<x - prev[1]>>

\* Series.abs() of a difference with a shifted column: NaN stays NaN
AbsDiff(x, prev) == IF prev = NaN THEN NaN ELSE <<Abs(x - prev[1])>>

\* DataFrame.max(axis=1): the largest of the row's values, NaN skipped
RowMax(vals) == Max({v[1] : v \in {x \in vals : x # NaN}})

RECURSIVE SumTR(_, _, _)
SumTR(d, lo, hi) == IF lo > hi THEN 0 ELSE d[hi].TR + SumTR(d, lo, hi - 1)

----------------------------------------------------------------------------
\* The downloaded series.

\* trading days: five days, then a two-day gap
DateOf(i) == i + 2 * ((i - 1) \div 5)

Bar(o, h, l, c, v) == [Open |-> o, High |-> h, Low |-> l, Close |-> c, Volume |-> v]

BaseBar     == Bar(30, 52, 20, 40, 1000)
BoundaryBar == Bar(30, 59, 20, 40, 1100)
SpikeLitBar == Bar(30, 96, 20, 40, 1200)
SpikeBar    == Bar(30, 116, 20, 110, 1300)
DipBar      == Bar(30, 55, 5, 10, 1400)
MalformedBar == Bar(30, 20, 52, 40, 1500)

OddBars == {BoundaryBar, SpikeLitBar, SpikeBar, DipBar, MalformedBar}

Lengths == {0} \cup (MinLen .. MaxLen)

Row(i, b) == [Date |-> DateOf(i), Open |-> b.Open, High |-> b.High,
              Low |-> b.Low, Close |-> b.Close, Volume |-> b.Volume]

\* yf.download(ticker, start, end): rows in date order, all dated before end
Download(N, odd, f) == [i \in 1 .. N |-> Row(i, IF i \in odd THEN f[i] ELSE BaseBar)]

----------------------------------------------------------------------------
\* Section 3: true range and its rolling mean.

\* data["Close"].shift(1)
ShiftClose(d, i) == IF i = 1 THEN NaN ELSE <<d[i - 1].Close>>

TRof(d, i) ==
    RowMax({ <<d[i].High - d[i].Low>>,
             AbsDiff(d[i].High, ShiftClose(d, i)),
             AbsDiff(d[i].Low, ShiftClose(d, i)) })

WithTR(d) ==
    [i \in 1 .. Len(d) |->
        [Date |-> d[i].Date, Open |-> d[i].Open, High |-> d[i].High,
         Low |-> d[i].Low, Close |-> d[i].Close, Volume |-> d[i].Volume,
         H_L |-> d[i].High - d[i].Low,
         H_PC |-> AbsDiff(d[i].High, ShiftClose(d, i)),
         L_PC |-> AbsDiff(d[i].Low, ShiftClose(d, i)),
         TR |-> TRof(d, i)]]

\* rolling(window=14).sum() in place of .mean()
RollingSum(d, i) == IF i < W THEN NaN ELSE <<SumTR(d, i - W + 1, i), 1>>

\* data["TR"].rolling(window=14).mean() at position i
RollingMean(d, i) == IF i < W THEN NaN ELSE <<SumTR(d, i - W + 1, i), W>>

WithATR(d) ==
    [i \in 1 .. Len(d) |->
        [Date |-> d[i].Date, Open |-> d[i].Open, High |-> d[i].High,
         Low |-> d[i].Low, Close |-> d[i].Close, Volume |-> d[i].Volume,
         H_L |-> d[i].H_L, H_PC |-> d[i].H_PC, L_PC |-> d[i].L_PC,
         TR |-> d[i].TR, ATR |-> RollingMean(d, i)]]

\* data.dropna(subset=["ATR"])
HasATR(r) == r.ATR # NaN
DropNa(d) == SelectSeq(d, HasATR)

----------------------------------------------------------------------------
\* Section 4: significant candles.

\* >= in place of >
IsSignificantGe(r) == MDen * r.TR * r.ATR[2] >= MNum * r.ATR[1]

\* row["TR"] > 1.2 * row["ATR"]
IsSignificant(r) == MDen * r.TR * r.ATR[2] > MNum * r.ATR[1]

SignificantOf(d) == SelectSeq(d, IsSignificant)

----------------------------------------------------------------------------
\* Section 5: the level loop.

\* the loop run over data.iterrows()
LoopRowsAll(d, sig) == d

\* the rows the loop iterates over
LoopRows(d, sig) == sig

\* the slice taken from the significant rows only
subsequent_significant(d, candle_date, e) ==
    SelectSeq(SignificantOf(d), LAMBDA r : candle_date + 1 <= r.Date /\ r.Date <= e)

\* data.loc[candle_date + pd.Timedelta(days=1) : end_date]
subsequent_data(d, candle_date, e) ==
    SelectSeq(d, LAMBDA r : candle_date + 1 <= r.Date /\ r.Date <= e)

\* >= in place of >
HighBrokenGe(sub, candle_high) == \E j \in 1 .. Len(sub) : sub[j].High >= candle_high

\* the Low column compared in place of the High column
HighBrokenLow(sub, candle_high) == \E j \in 1 .. Len(sub) : sub[j].Low > candle_high

\* (subsequent_data["High"] > candle_high).any()
HighBroken(sub, candle_high) == \E j \in 1 .. Len(sub) : sub[j].High > candle_high

\* <= in place of <
LowBrokenLe(sub, candle_low) == \E j \in 1 .. Len(sub) : sub[j].Low <= candle_low

\* (subsequent_data["Low"] < candle_low).any()
LowBroken(sub, candle_low) == \E j \in 1 .. Len(sub) : sub[j].Low < candle_low

----------------------------------------------------------------------------
\* Section 6: display.

\* f"{level:.2f}" of a whole number: the number and two zero decimals
Fmt2(x) == <<x, 0, 0>>

LevelLines(levels) ==
    [j \in 1 .. Len(levels) |-> [Date |-> levels[j][1], Level |-> Fmt2(levels[j][2])]]

Page(d, sig, res, sup) ==
    [table |-> [j \in 1 .. Len(d) |->
                  [Date |-> d[j].Date, Open |-> d[j].Open, High |-> d[j].High,
                   Low |-> d[j].Low, Close |-> d[j].Close, Volume |-> d[j].Volume,
                   ATR |-> d[j].ATR]],
     significant |-> IF sig = <<>> THEN "No significant candles found in this period."
                     ELSE [j \in 1 .. Len(sig) |-> sig[j].Date],
     resistance |-> IF res # <<>> THEN LevelLines(res)
                    ELSE "No unbroken resistance levels found.",
     support |-> IF sup # <<>> THEN LevelLines(sup)
                 ELSE "No unbroken support levels found."]

----------------------------------------------------------------------------
\* The run of the script.

Init ==
    \E N \in Lengths :
    \E odd \in SUBSET (FreeFrom .. N) :
        /\ Cardinality(odd) <= MaxOdd
        /\ \E f \in [odd -> OddBars] :
            /\ series = Download(N, odd, f)
            /\ data = Download(N, odd, f)
            /\ end_date = DateOf(N) + 1
        /\ significant_candles = <<>>
        /\ resistance_levels = <<>>
        /\ support_levels = <<>>
        /\ k = 1
        /\ out = <<>>
        /\ pc = "check_empty"

\* if data.empty: st.error(...); st.stop()
StopNoData ==
    /\ pc = "check_empty"
    /\ data = <<>>
    /\ out' = <<"No data found. Please try a different ticker or date range.">>
    /\ pc' = "stopped"
    /\ UNCHANGED <<series, end_date, data, significant_candles,
                   resistance_levels, support_levels, k>>

CheckEmpty ==
    /\ pc = "check_empty"
    /\ data # <<>>
    /\ pc' = "tr"
    /\ UNCHANGED <<series, end_date, data, significant_candles,
                   resistance_levels, support_levels, k, out>>

CalcTR ==
    /\ pc = "tr"
    /\ data' = WithTR(data)
    /\ pc' = "atr"
    /\ UNCHANGED <<series, end_date, significant_candles,
                   resistance_levels, support_levels, k, out>>

CalcATR ==
    /\ pc = "atr"
    /\ data' = WithATR(data)
    /\ pc' = "dropna"
    /\ UNCHANGED <<series, end_date, significant_candles,
                   resistance_levels, support_levels, k, out>>

DropNaStep ==
    /\ pc = "dropna"
    /\ data' = DropNa(data)
    /\ pc' = "significant"
    /\ UNCHANGED <<series, end_date, significant_candles,
                   resistance_levels, support_levels, k, out>>

Classify ==
    /\ pc = "significant"
    /\ significant_candles' = SignificantOf(data)
    /\ resistance_levels' = <<>>
    /\ support_levels' = <<>>
    /\ k' = 1
    /\ pc' = "scan"
    /\ UNCHANGED <<series, end_date, data, out>>

\* the iteration with the support check as the else branch of the resistance check
ScanStepElif ==
    /\ pc = "scan"
    /\ k <= Len(LoopRows(data, significant_candles))
    /\ LET row == LoopRows(data, significant_candles)[k]
           sub == subsequent_data(data, row.Date, end_date)
       IN  IF ~HighBroken(sub, row.High)
           THEN /\ resistance_levels' = Append(resistance_levels, <<row.Date, row.High>>)
                /\ support_levels' = support_levels
           ELSE /\ resistance_levels' = resistance_levels
                /\ support_levels' =
                      IF ~LowBroken(sub, row.Low)
                      THEN Append(support_levels, <<row.Date, row.Low>>)
                      ELSE support_levels
    /\ k' = k + 1
    /\ UNCHANGED <<series, end_date, data, significant_candles, out, pc>>

\* one iteration of: for candle_date, row in significant_candles.iterrows()
ScanStep ==
    /\ pc = "scan"
    /\ k <= Len(LoopRows(data, significant_candles))
    /\ LET row == LoopRows(data, significant_candles)[k]
           candle_date == row.Date
           candle_high == row.High
           candle_low == row.Low
           sub == subsequent_data(data, candle_date, end_date)
       IN  /\ resistance_levels' =
                 IF ~HighBroken(sub, candle_high)
                 THEN Append(resistance_levels, <<candle_date, candle_high>>)
                 ELSE resistance_levels
           /\ support_levels' =
                 IF ~LowBroken(sub, candle_low)
                 THEN Append(support_levels, <<candle_date, candle_low>>)
                 ELSE support_levels
    /\ k' = k + 1
    /\ UNCHANGED <<series, end_date, data, significant_candles, out, pc>>

ScanEnd ==
    /\ pc = "scan"
    /\ k > Len(LoopRows(data, significant_candles))
    /\ pc' = "display"
    /\ UNCHANGED <<series, end_date, data, significant_candles,
                   resistance_levels, support_levels, k, out>>

Display ==
    /\ pc = "display"
    /\ out' = Page(data, significant_candles, resistance_levels, support_levels)
    /\ pc' = "done"
    /\ UNCHANGED <<series, end_date, data, significant_candles,
                   resistance_levels, support_levels, k>>

Next ==
    \/ StopNoData
    \/ CheckEmpty
    \/ CalcTR
    \/ CalcATR
    \/ DropNaStep
    \/ Classify
    \/ ScanStep
    \/ ScanEnd
    \/ Display

Spec == Init /\ [][Next]_vars

----------------------------------------------------------------------------
\* Vocabulary of the properties, stated on the downloaded series.

Scanned == pc \in {"display", "done"}

Classified == pc \in {"scan", "display", "done"}

\* the bar ordering invariant of the data model
WellFormed(b) ==
    /\ b.High >= b.Low /\ b.High >= b.Open /\ b.High >= b.Close
    /\ b.Low <= b.Open /\ b.Low <= b.Close

Max3(a, b, c) == Max({a, b, c})

\* the classical true range of the bar at position i of the series
ClassicTR(i) ==
    IF i = 1 THEN series[1].High - series[1].Low
    ELSE Max3(series[i].High - series[i].Low,
              Abs(series[i].High - series[i - 1].Close),
              Abs(series[i].Low - series[i - 1].Close))

RECURSIVE ClassicSum(_, _)
ClassicSum(lo, hi) == IF lo > hi THEN 0 ELSE ClassicTR(hi) + ClassicSum(lo, hi - 1)

\* true range strictly above 1.2 times the mean over the W bars ending at i
AboveThreshold(i) == MDen * W * ClassicTR(i) > MNum * ClassicSum(i - W + 1, i)

AtThreshold(i) == MDen * W * ClassicTR(i) = MNum * ClassicSum(i - W + 1, i)

InSignificant(i) ==
    \E j \in 1 .. Len(significant_candles) : significant_candles[j].Date = series[i].Date

IsLevel(levels, d, p) == \E j \in 1 .. Len(levels) : levels[j] = <<d, p>>

LaterHigher(i) ==
    \E j \in 1 .. Len(series) :
        series[j].Date > series[i].Date /\ series[j].High > series[i].High

LaterLower(i) ==
    \E j \in 1 .. Len(series) :
        series[j].Date > series[i].Date /\ series[j].Low < series[i].Low

IsResistance(i) == IsLevel(resistance_levels, series[i].Date, series[i].High)

IsSupport(i) == IsLevel(support_levels, series[i].Date, series[i].Low)

----------------------------------------------------------------------------
\* C1: once the loop has run, a significant bar's (date, high) is in the
\* Resistance list exactly when no bar of the series dated strictly later has
\* a strictly greater high; an equal later high does not break the level and
\* a significant bar with no later bar is always a level.
C1_ResistanceIff ==
    Scanned =>
        \A i \in 1 .. Len(series) :
            InSignificant(i) => (IsResistance(i) <=> ~LaterHigher(i))

\* a level kept although a later bar has the same high, next to a broken one
C1_Witness ==
    /\ Scanned
    /\ \E i \in 1 .. Len(series) :
        /\ InSignificant(i) /\ IsResistance(i)
        /\ \E j \in 1 .. Len(series) : j > i /\ series[j].High = series[i].High
    /\ \E i \in 1 .. Len(series) : InSignificant(i) /\ i = Len(series) /\ IsResistance(i)

\* C2: once the loop has run, a significant bar's (date, low) is in the
\* Support list exactly when no later bar has a strictly smaller low, whatever
\* the Resistance decision for that bar: a bar whose high is exceeded by the
\* very next bar is no Resistance level and is a Support level exactly when
\* its low condition holds.
C2_SupportIffIndependent ==
    Scanned =>
        \A i \in 1 .. Len(series) :
            InSignificant(i) =>
                /\ IsSupport(i) <=> ~LaterLower(i)
                /\ (i < Len(series) /\ series[i + 1].High > series[i].High)
                      => (~IsResistance(i) /\ (IsSupport(i) <=> ~LaterLower(i)))

\* a significant bar broken as resistance by the next bar and kept as support
C2_Witness ==
    /\ Scanned
    /\ \E i \in 1 .. Len(series) :
        /\ InSignificant(i)
        /\ i < Len(series) /\ series[i + 1].High > series[i].High
        /\ ~IsResistance(i) /\ IsSupport(i)

\* C3: a series shorter than the window never runs to normal completion.
C3_InsufficientDataFails == Len(series) < W => pc # "done"

\* C4: a series holding a bar that violates the ordering invariant is stopped
\* before its true range is computed.
C4_MalformedBarDetected ==
    (\E i \in 1 .. Len(series) : ~WellFormed(series[i]))
        => pc \in {"check_empty", "tr", "stopped"}

\* highs and lows of the series are constant except at position b
ConstantExcept(b) ==
    \A i \in 1 .. Len(series) :
        i # b => (series[i].High = series[1].High /\ series[i].Low = series[1].Low)

\* C5 as stated: in a series of 16 bars with constant highs and lows except
\* bar 10, whose high is 3 times the average true range of the bars before it
\* and is not exceeded later, bar 10 is significant and a Resistance level.
C5_Bar10Scenario ==
    \A b \in {10, 11} :
        ( /\ Scanned
          /\ Len(series) = 16
          /\ ConstantExcept(b)
          /\ (b - 1) * series[b].High = 3 * ClassicSum(1, b - 1)
          /\ ~LaterHigher(b) )
        => (InSignificant(b) /\ IsResistance(b))

\* C5 amended: in a series of 16 bars with constant highs and lows except the
\* bar at 0-based index 14, whose true range is 3 times the average true range
\* of the 14 bars before it and whose high is not exceeded later, that bar is
\* significant and a Resistance level priced at its high.
C5_Bar14Scenario ==
    ( /\ Scanned
      /\ Len(series) = 16
      /\ ConstantExcept(W + 1)
      /\ ClassicSum(1, W) > 0
      /\ W * ClassicTR(W + 1) = 3 * ClassicSum(1, W)
      /\ ~LaterHigher(W + 1) )
    => (InSignificant(W + 1) /\ IsResistance(W + 1))

C5_Witness ==
    /\ Scanned
    /\ Len(series) = 16
    /\ ConstantExcept(W + 1)
    /\ ClassicSum(1, W) > 0
    /\ W * ClassicTR(W + 1) = 3 * ClassicSum(1, W)
    /\ ~LaterHigher(W + 1)
    /\ InSignificant(W + 1)
    /\ resistance_levels[1] = <<series[W + 1].Date, series[W + 1].High>>

\* C6: once classified, a bar is in the significant list exactly when it has
\* W - 1 bars before it and its true range is strictly above 1.2 times the
\* mean true range of the W bars ending at it.
C6_SignificantIff ==
    Classified =>
        \A i \in 1 .. Len(series) :
            InSignificant(i) <=> (i >= W /\ AboveThreshold(i))

\* a bar exactly at the threshold, left out, next to a significant one
C6_Witness ==
    /\ Classified
    /\ \E i \in W .. Len(series) : AtThreshold(i) /\ ~InSignificant(i)
    /\ \E i \in W .. Len(series) : InSignificant(i)

\* C7: every Resistance and every Support entry is the (date, high) or
\* (date, low) of a bar of the significant list, which has W - 1 bars before
\* it.
C7_LevelsFromSignificant ==
    /\ \A j \in 1 .. Len(resistance_levels) :
          \E i \in W .. Len(series) :
              /\ InSignificant(i)
              /\ resistance_levels[j] = <<series[i].Date, series[i].High>>
    /\ \A j \in 1 .. Len(support_levels) :
          \E i \in W .. Len(series) :
              /\ InSignificant(i)
              /\ support_levels[j] = <<series[i].Date, series[i].Low>>

\* levels of both kinds, and an unbroken bar that is not significant
C7_Witness ==
    /\ Scanned
    /\ resistance_levels # <<>>
    /\ support_levels # <<>>
    /\ \E i \in W .. Len(series) :
          ~InSignificant(i) /\ ~LaterHigher(i) /\ ~LaterLower(i)

\* C8: the TR column of a well-formed bar after the first is the maximum of
\* the three classical components, at least 0, at least high - low and at
\* least |close - previous close|; the first bar's is high - low.
C8_TrueRange ==
    pc \in {"atr", "dropna"} =>
        /\ Len(data) = Len(series)
        /\ data[1].TR = series[1].High - series[1].Low
        /\ \A i \in 2 .. Len(series) :
              WellFormed(series[i]) =>
                  /\ data[i].TR = ClassicTR(i)
                  /\ data[i].TR >= 0
                  /\ data[i].TR >= series[i].High - series[i].Low
                  /\ data[i].TR >= Abs(series[i].Close - series[i - 1].Close)

\* a well-formed bar whose true range comes from a gap to the previous close
C8_Witness ==
    /\ pc = "atr"
    /\ \E i \in 2 .. Len(series) :
          /\ WellFormed(series[i])
          /\ data[i].TR > series[i].High - series[i].Low
          /\ series[i].High < series[i - 1].Close

\* the bars of the downloaded series dated after d, up to the end date
Subsequent(d) == SelectSeq(series, LAMBDA r : r.Date > d /\ r.Date <= end_date)

Bare(rows) == [j \in 1 .. Len(rows) |->
                 [Date |-> rows[j].Date, Open |-> rows[j].Open, High |-> rows[j].High,
                  Low |-> rows[j].Low, Close |-> rows[j].Close, Volume |-> rows[j].Volume]]

RECURSIVE UnbrokenFrom(_, _)
\* the levels of the given kind found on the unfiltered series from position i on
UnbrokenFrom(i, kind) ==
    IF i > Len(series) THEN <<>>
    ELSE LET sub == Subsequent(series[i].Date)
             keep == IF kind = "Resistance"
                     THEN \A j \in 1 .. Len(sub) : sub[j].High <= series[i].High
                     ELSE \A j \in 1 .. Len(sub) : sub[j].Low >= series[i].Low
             price == IF kind = "Resistance" THEN series[i].High ELSE series[i].Low
         IN  (IF InSignificant(i) /\ keep THEN <<<<series[i].Date, price>>>> ELSE <<>>)
                 \o UnbrokenFrom(i + 1, kind)

\* C9: for every significant bar the slice the loop takes from the series
\* without its first W - 1 bars holds the same bars as the slice of the whole
\* downloaded series, and the two give the same Resistance and Support lists.
C9_SameSubsequent ==
    /\ Classified =>
          \A i \in 1 .. Len(significant_candles) :
              Bare(subsequent_data(data, significant_candles[i].Date, end_date))
                  = Subsequent(significant_candles[i].Date)
    /\ Scanned =>
          /\ resistance_levels = UnbrokenFrom(1, "Resistance")
          /\ support_levels = UnbrokenFrom(1, "Support")

\* a significant bar followed by a bar that is not significant and breaks it
C9_Witness ==
    /\ Scanned
    /\ \E i \in 1 .. Len(series) :
          /\ InSignificant(i)
          /\ \E j \in 1 .. Len(series) :
                /\ j > i /\ ~InSignificant(j)
                /\ series[j].Low < series[i].Low
          /\ ~IsSupport(i)
    /\ Len(series) > Len(data)

\* C10: both lists are in strictly increasing date order; Resistance prices
\* never increase and Support prices never decrease along the list.
C10_Ordered ==
    /\ \A a, b \in 1 .. Len(resistance_levels) :
          a < b => /\ resistance_levels[a][1] < resistance_levels[b][1]
                   /\ resistance_levels[a][2] >= resistance_levels[b][2]
    /\ \A a, b \in 1 .. Len(support_levels) :
          a < b => /\ support_levels[a][1] < support_levels[b][1]
                   /\ support_levels[a][2] <= support_levels[b][2]

\* two Resistance levels of one price from different dates, both kept
C10_Witness ==
    /\ Scanned
    /\ Len(resistance_levels) >= 2
    /\ resistance_levels[1][2] = resistance_levels[2][2]
    /\ resistance_levels[1][1] < resistance_levels[2][1]
    /\ Len(support_levels) >= 2

====
